---- MODULE Spec2Model ----
(***************************************************************************)
(* Model of streamlit_app.py: the ETF screener pipeline                    *)
(*   fetch_data -> _process_data -> _process_etf_entry -> _enhance_dataframe*)
(*   -> load_data (st.cache_data, ttl 3600) -> main.                        *)
(*                                                                         *)
(* Values.  A Python/JSON value is a tagged record:                        *)
(*   [t |-> "null"]                      None / JSON null                   *)
(*   [t |-> "str", v |-> <<chars>>]      a string, one character per item   *)
(*   [t |-> "num", w |-> n, u |-> m]     the number n + m / 10^6, n,m >= 0  *)
(*   [t |-> "bool", v |-> b]             True / False                       *)
(*   [t |-> "dict", items |-> <<..>>]    a dict: <<key, value>> pairs in    *)
(*                                       insertion order, keys distinct     *)
(*   [t |-> "nan"]                       the float NaN pandas coerces to    *)
(* Numbers are decimal fixed point so that the two-decimal rounding of the *)
(* format specifications is computed, not assumed.  The inputs contain no  *)
(* value whose third decimal is a tie that a binary double cannot hold     *)
(* exactly, so round-half-even on the decimal value is what CPython prints.*)
(***************************************************************************)
EXTENDS Integers, Sequences, FiniteSets, TLC

VARIABLES
    raw_data,        \* _process_data: its argument
    norm_pc,         \* _process_data: position ("start", "map", "frame", "done")
    futures,         \* executor.map: per entry pending, cancelled or the call's outcome
    processed_data,  \* list(executor.map(...)): the records collected so far
    norm_result,     \* _process_data: what it returned or raised
    first_result,    \* what the call before this one returned or raised, if any
    now,             \* wall clock, seconds
    cache,           \* st.cache_data store of load_data: the entry or NoEntry
    lock,            \* st.cache_data compute lock of load_data: its holder or 0
    pc,              \* per caller (script run): position in main / load_data
    etf_data,        \* per caller: what load_data returned or raised
    ui,              \* per caller: what main showed
    widgets,         \* per caller: the widget values of the session
    resp,            \* per caller: how the HTTP request of its load_data ended
    request,         \* the HTTP request in flight (one at a time, under the lock)
    primary,         \* Merger: the primary record sequence
    secondary,       \* Merger: the tickers the secondary source lists as actively managed
    enriched,        \* Merger: the enriched sequence
    merge_pc,        \* Merger: position ("start", "joined", "done")
    s3_client,       \* S3Service.s3_client: None or the boto3 client
    clients_created, \* number of clients boto3.client has returned
    s3_requests,     \* number of S3 requests issued, per operation
    connect_status,  \* status_placeholder of the Connect attempt that ended last
    s3_pc,           \* per session: position in the S3Service code
    s3_op,           \* per session: the S3Service operation it is in
    etf_data_pd,     \* main: the loaded table as a pandas frame
    filtered_data,   \* main: the frame handed to AgGrid
    quick_search,    \* main: the text of "Global Quick Search"
    grid_sort,       \* the grid: how its rows are sorted
    grid_response,   \* main: response['data'], the rows the grid returned
    export_payload,  \* export_dialog: the data of the download button
    export_pc,       \* position of the export flow ("idle", "loaded", "grid", "exported")
    http_fetches,    \* number of session.get calls issued so far
    last_fetch_done  \* when the last HTTP fetch returned a JSON document, -1 if never

norm_vars == <<raw_data, norm_pc, futures, processed_data, norm_result, first_result>>
app_vars == <<now, cache, lock, pc, etf_data, ui, widgets, resp, request, http_fetches,
              last_fetch_done>>
merge_vars == <<primary, secondary, enriched, merge_pc>>
s3_vars == <<s3_client, clients_created, s3_requests, connect_status, s3_pc, s3_op>>
export_vars == <<etf_data_pd, filtered_data, quick_search, grid_sort, grid_response,
                 export_payload, export_pc>>
vars == <<raw_data, norm_pc, futures, processed_data, norm_result, first_result,
          now, cache, lock, pc, etf_data, ui, widgets, resp, request, http_fetches,
          last_fetch_done, primary, secondary, enriched, merge_pc,
          s3_client, clients_created, s3_requests, connect_status, s3_pc, s3_op,
          etf_data_pd, filtered_data, quick_search, grid_sort, grid_response,
          export_payload, export_pc>>

----------------------------------------------------------------------------
(* Python values *)

JNull == [t |-> "null"]
JStr(s) == [t |-> "str", v |-> s]
JNum(w, u) == [t |-> "num", w |-> w, u |-> u]
JBool(b) == [t |-> "bool", v |-> b]
JDict(items) == [t |-> "dict", items |-> items]
NaN == [t |-> "nan"]

\* dict: key in d
HasKey(d, k) == \E i \in 1..Len(d.items) : d.items[i][1] = k

\* dict: d[k], for a key that is present
Lookup(d, k) == d.items[CHOOSE i \in 1..Len(d.items) : d.items[i][1] = k][2]

\* dict.get(k, default)
Get(d, k, default) == IF HasKey(d, k) THEN Lookup(d, k) ELSE default

\* Python truth value of a payload: None, {}, "", 0 are false
Truthy(x) ==
    CASE x.t = "null" -> FALSE
      [] x.t = "dict" -> Len(x.items) > 0
      [] x.t = "str"  -> Len(x.v) > 0
      [] x.t = "num"  -> x.w > 0 \/ x.u > 0
      [] x.t = "bool" -> x.v
      [] OTHER -> TRUE

Ok(val) == [ok |-> TRUE, val |-> val]
Raise(exc) == [ok |-> FALSE, exc |-> exc]

----------------------------------------------------------------------------
(* Decimal text: what the format specifications print and what             *)
(* pd.to_numeric reads back.                                               *)

DigitChars == <<"0", "1", "2", "3", "4", "5", "6", "7", "8", "9">>

IsDigit(c) == \E d \in 1..10 : DigitChars[d] = c

DigitVal(c) == (CHOOSE d \in 1..10 : DigitChars[d] = c) - 1

RECURSIVE Digits(_)
\* the decimal digits of n >= 0, no separators
Digits(n) == IF n < 10 THEN <<DigitChars[n + 1]>>
             ELSE Digits(n \div 10) \o <<DigitChars[(n % 10) + 1]>>

Pad3(n) == <<DigitChars[(n \div 100) + 1], DigitChars[((n \div 10) % 10) + 1],
             DigitChars[(n % 10) + 1]>>

Pad2(n) == <<DigitChars[(n \div 10) + 1], DigitChars[(n % 10) + 1]>>

RECURSIVE Grouped(_)
\* the ',' option of the format specification: groups of three digits
Grouped(n) == IF n < 1000 THEN Digits(n)
              ELSE Grouped(n \div 1000) \o <<",">> \o Pad3(n % 1000)

\* the '.2f' precision cutting the digits after the hundredths off
Round2Truncating(x) == [w |-> x.w, c |-> x.u \div 10000]

\* the '.2f' precision: x rounded to hundredths, ties to even;
\* the result is w units and c hundredths
Round2(x) ==
    LET c0 == x.u \div 10000
        r  == x.u % 10000
        c1 == IF r > 5000 \/ (r = 5000 /\ c0 % 2 = 1) THEN c0 + 1 ELSE c0
    IN  IF c1 = 100 THEN [w |-> x.w + 1, c |-> 0] ELSE [w |-> x.w, c |-> c1]

\* f"${x:,.2f}"
FormatCurrency(x) ==
    LET r == Round2(x) IN <<"$">> \o Grouped(r.w) \o <<".">> \o Pad2(r.c)

\* f"${x:,.2f}M" without the suffix (a formatter that forgot the unit)
FormatAumNoSuffix(x) == FormatCurrency(x)

\* f"${x:,.2f}M"
FormatAum(x) == FormatCurrency(x) \o <<"M">>

\* f"{x:.2%}": x * 100, two decimals, '%', no thousands separator
FormatPercent(x) ==
    LET h == [w |-> x.w * 100 + x.u \div 10000, u |-> (x.u % 10000) * 100]
        r == Round2(h)
    IN  Digits(r.w) \o <<".">> \o Pad2(r.c) \o <<"%">>

RECURSIVE DigitsValue(_)
\* the number a run of digits denotes
DigitsValue(s) == IF Len(s) = 0 THEN 0
                  ELSE DigitsValue(SubSeq(s, 1, Len(s) - 1)) * 10 + DigitVal(s[Len(s)])

AllDigits(s) == \A i \in 1..Len(s) : IsDigit(s[i])

\* the fraction digits as millionths: the first six digits, right padded
FractionMicro(s) ==
    LET padded == SubSeq(s \o <<"0", "0", "0", "0", "0", "0">>, 1, 6)
    IN  DigitsValue(padded)

\* float(s) as pd.to_numeric reads a string: digits with at most one point
\* and at least one digit; anything else is not a number
ParseFloat(s) ==
    LET dots == {i \in 1..Len(s) : s[i] = "."}
    IN  IF Cardinality(dots) > 1 THEN NaN
        ELSE LET p     == IF dots = {} THEN Len(s) + 1 ELSE CHOOSE i \in dots : TRUE
                 whole == SubSeq(s, 1, p - 1)
                 frac  == SubSeq(s, p + 1, Len(s))
             IN  IF AllDigits(whole) /\ AllDigits(frac) /\ Len(whole) + Len(frac) > 0
                 THEN JNum(DigitsValue(whole), FractionMicro(frac))
                 ELSE NaN

\* pd.to_numeric(..., errors='coerce') on one element
ToNumeric(x) ==
    CASE x.t = "num"  -> x
      [] x.t = "str"  -> ParseFloat(x.v)
      [] x.t = "bool" -> JNum(IF x.v THEN 1 ELSE 0, 0)
      [] OTHER        -> NaN

\* pd.notnull
NotNull(x) == x.t \notin {"nan", "null"}

\* str.replace(old, '', regex=False) for a one-character old
StrRemove(s, ch) == SelectSeq(s, LAMBDA c : c # ch)

----------------------------------------------------------------------------
(* DataFrame: the column names in order and one row per record, a row      *)
(* being a function from column name to value.                             *)

Frame(columns, rows) == [columns |-> columns, rows |-> rows]

\* pd.DataFrame()
EmptyFrame == Frame(<<>>, <<>>)

HasColumn(df, c) == \E i \in 1..Len(df.columns) : df.columns[i] = c

RECURSIVE KeysInOrder(_, _)
\* the keys of a list of dicts in order of first appearance
KeysInOrder(records, acc) ==
    IF Len(records) = 0 THEN acc
    ELSE LET keys  == [i \in 1..Len(Head(records).items) |-> Head(records).items[i][1]]
             fresh == SelectSeq(keys, LAMBDA k : \A j \in 1..Len(acc) : acc[j] # k)
         IN  KeysInOrder(Tail(records), acc \o fresh)

\* pd.DataFrame(list of dicts) that loses the last record
DataFrameDroppingLast(records) ==
    LET kept    == SubSeq(records, 1, Len(records) - 1)
        columns == KeysInOrder(kept, <<>>)
        names   == {columns[i] : i \in 1..Len(columns)}
    IN  Frame(columns,
              [i \in 1..Len(kept) |-> [c \in names |-> Get(kept[i], c, NaN)]])

\* pd.DataFrame(list of dicts): one row per dict, a missing key is NaN
DataFrame(records) ==
    LET columns == KeysInOrder(records, <<>>)
        names   == {columns[i] : i \in 1..Len(columns)}
    IN  Frame(columns,
              [i \in 1..Len(records) |-> [c \in names |-> Get(records[i], c, NaN)]])

\* df[col] = df[col].apply(f), f given as the new cell of each row
WithColumn(df, col, cell(_)) ==
    Frame(df.columns, [i \in 1..Len(df.rows) |-> [df.rows[i] EXCEPT ![col] = cell(df.rows[i])]])

----------------------------------------------------------------------------
(* CachedETFDataFetcher: the Normalizer                                    *)

EmptyStr == JStr(<<>>)

\* _process_etf_entry that also copies the listing exchange through
ProcessEtfEntryKeepingExchange(entry) ==
    LET ticker == entry[1]
        data   == entry[2]
    IN  IF data.t # "dict" THEN Raise("AttributeError")
        ELSE Ok(JDict(<<
            <<"TICKER_SYMBOL", JStr(ticker)>>,
            <<"ETF_ISSUER", Get(data, "issuer", EmptyStr)>>,
            <<"ETF_DESCRIPTION", Get(data, "n", EmptyStr)>>,
            <<"ASSET_CLASS", Get(data, "assetClass", EmptyStr)>>,
            <<"INCEPTION_DATE", Get(data, "inceptionDate", EmptyStr)>>,
            <<"ASSETS_UNDER_MANAGEMENT", Get(data, "aum", JNum(0, 0))>>,
            <<"EXPENSE_RATIO", Get(data, "expenseRatio", JNum(0, 0))>>,
            <<"NUMBER_OF_HOLDINGS", Get(data, "holdings", JNum(0, 0))>>,
            <<"CURRENT_PRICE", Get(data, "price", JNum(0, 0))>>,
            <<"CUSIP", Get(data, "cusip", EmptyStr)>>,
            <<"ETF_CATEGORY", Get(data, "etfCategory", EmptyStr)>>,
            <<"TRACKING_INDEX", Get(data, "etfIndex", EmptyStr)>>,
            <<"GEOGRAPHIC_REGION", Get(data, "etfRegion", EmptyStr)>>,
            <<"COUNTRY_FOCUS", Get(data, "etfCountry", EmptyStr)>>,
            <<"HAS_OPTIONS", Get(data, "optionable", JBool(FALSE))>>,
            <<"exchange", Get(data, "exchange", EmptyStr)>> >>))

\* _process_etf_entry(entry): entry is (ticker, data); data.get raises
\* AttributeError when data is not a dict
_process_etf_entry(entry) ==
    LET ticker == entry[1]
        data   == entry[2]
    IN  IF data.t # "dict" THEN Raise("AttributeError")
        ELSE Ok(JDict(<<
            <<"TICKER_SYMBOL", JStr(ticker)>>,
            <<"ETF_ISSUER", Get(data, "issuer", EmptyStr)>>,
            <<"ETF_DESCRIPTION", Get(data, "n", EmptyStr)>>,
            <<"ASSET_CLASS", Get(data, "assetClass", EmptyStr)>>,
            <<"INCEPTION_DATE", Get(data, "inceptionDate", EmptyStr)>>,
            <<"ASSETS_UNDER_MANAGEMENT", Get(data, "aum", JNum(0, 0))>>,
            <<"EXPENSE_RATIO", Get(data, "expenseRatio", JNum(0, 0))>>,
            <<"NUMBER_OF_HOLDINGS", Get(data, "holdings", JNum(0, 0))>>,
            <<"CURRENT_PRICE", Get(data, "price", JNum(0, 0))>>,
            <<"CUSIP", Get(data, "cusip", EmptyStr)>>,
            <<"ETF_CATEGORY", Get(data, "etfCategory", EmptyStr)>>,
            <<"TRACKING_INDEX", Get(data, "etfIndex", EmptyStr)>>,
            <<"GEOGRAPHIC_REGION", Get(data, "etfRegion", EmptyStr)>>,
            <<"COUNTRY_FOCUS", Get(data, "etfCountry", EmptyStr)>>,
            <<"HAS_OPTIONS", Get(data, "optionable", JBool(FALSE))>> >>))

\* one formatted cell: pd.to_numeric(errors='coerce'), then the lambda
\*   f(x) if pd.notnull(x) else ''
FormattedCell(x, fmt(_)) ==
    LET n == ToNumeric(x) IN IF NotNull(n) THEN JStr(fmt(n)) ELSE EmptyStr

\* lines 577-579 with the reorder left out
CusipLeftInPlace(columns) == columns

\* the column order of lines 577-579: CUSIP first when it is a column
CusipFirst(columns) ==
    IF \E i \in 1..Len(columns) : columns[i] = "CUSIP"
    THEN <<"CUSIP">> \o SelectSeq(columns, LAMBDA c : c # "CUSIP")
    ELSE columns

\* _enhance_dataframe(df): df[col] raises KeyError when col is no column
_enhance_dataframe(df) ==
    IF ~HasColumn(df, "CURRENT_PRICE") THEN Raise("KeyError")
    ELSE LET d1 == WithColumn(df, "CURRENT_PRICE",
                      LAMBDA r : FormattedCell(r["CURRENT_PRICE"], FormatCurrency))
         IN  IF ~HasColumn(d1, "ASSETS_UNDER_MANAGEMENT") THEN Raise("KeyError")
             ELSE LET d2 == WithColumn(d1, "ASSETS_UNDER_MANAGEMENT",
                               LAMBDA r : FormattedCell(r["ASSETS_UNDER_MANAGEMENT"], FormatAum))
                  IN  IF ~HasColumn(d2, "EXPENSE_RATIO") THEN Raise("KeyError")
                      ELSE LET d3 == WithColumn(d2, "EXPENSE_RATIO",
                                        LAMBDA r : FormattedCell(r["EXPENSE_RATIO"], FormatPercent))
                           IN  Ok(Frame(CusipFirst(d3.columns), d3.rows))

\* x[k] for a string key k
Subscript(x, k) ==
    IF x.t = "dict"
    THEN IF HasKey(x, k) THEN Ok(Lookup(x, k)) ELSE Raise("KeyError")
    ELSE Raise("TypeError")

\* line 539 with the membership test left out: `if not raw_data`
LacksDataOnlyWhenFalsy(raw) == ~Truthy(raw)

\* line 539: `not raw_data or 'data' not in raw_data`, raw_data a dict or None
LacksData(raw) == ~Truthy(raw) \/ ~(raw.t = "dict" /\ HasKey(raw, "data"))

\* line 542 and the .items() of line 544: raw_data['data']['data'].items()
RawEntries(raw) ==
    LET outer == Subscript(raw, "data")
    IN  IF ~outer.ok THEN outer
        ELSE LET inner == Subscript(outer.val, "data")
             IN  IF ~inner.ok THEN inner
                 ELSE IF inner.val.t # "dict" THEN Raise("AttributeError")
                 ELSE Ok(inner.val.items)

RECURSIVE MapInOrder(_, _)
\* list(map(_process_etf_entry, items)): the records, or the first exception in order
MapInOrder(items, acc) ==
    IF Len(items) = 0 THEN Ok(acc)
    ELSE LET r == _process_etf_entry(Head(items))
         IN  IF r.ok THEN MapInOrder(Tail(items), Append(acc, r.val)) ELSE r

\* _process_data(raw_data) as one call, the workers run to completion
_process_data(raw) ==
    IF LacksData(raw) THEN Ok(EmptyFrame)
    ELSE LET entries == RawEntries(raw)
         IN  IF ~entries.ok THEN entries
             ELSE LET recs == MapInOrder(entries.val, <<>>)
                  IN  IF ~recs.ok THEN recs
                      ELSE _enhance_dataframe(DataFrame(recs.val))

----------------------------------------------------------------------------
(* The payloads the Normalizer is run on                                   *)

MaxEntries == 2

Str3(a, b, c) == JStr(<<a, b, c>>)

\* the tickers of a payload, in the order the remote lists them
Tickers == << <<"S", "P", "Y">>, <<"Q", "Q", "Q">>, <<"I", "V", "V">>, <<"V", "O", "O">> >>

\* marks a key the attribute dictionary does not have
Absent == [t |-> "absent"]

BaseAum == JNum(450000, 0)
BasePrice == JNum(560, 120000)
BaseExpenseRatio == JNum(0, 94500)

\* what a numeric source field may hold besides its base value: no key, null,
\* text, a zero, a value that rounds up across a thousand, a number as text
FieldVariants ==
    { Absent, JNull, Str3("n", "/", "a"), JNum(0, 0), JNum(999, 995001),
      JStr(<<"1", "2", ".", "5">>) }

\* an attribute dictionary with every key of the screener URL (line 526-528),
\* the three numeric ones as given
Attributes(aum, price, expenseRatio) ==
    JDict(SelectSeq(<<
        <<"issuer", Str3("S", "S", "G")>>,
        <<"n", Str3("S", "&", "P")>>,
        <<"assetClass", Str3("E", "q", "t")>>,
        <<"inceptionDate", Str3("1", "9", "9")>>,
        <<"exchange", Str3("N", "Y", "S")>>,
        <<"etfLeverage", Str3("1", "x", " ")>>,
        <<"aum", aum>>,
        <<"close", JNum(559, 0)>>,
        <<"holdings", JNum(503, 0)>>,
        <<"price", price>>,
        <<"cusip", Str3("7", "8", "4")>>,
        <<"isin", Str3("U", "S", "7")>>,
        <<"etfCategory", Str3("L", "r", "g")>>,
        <<"expenseRatio", expenseRatio>>,
        <<"etfIndex", Str3("S", "P", "X")>>,
        <<"etfRegion", Str3("N", "A", "m")>>,
        <<"etfCountry", Str3("U", "S", "A")>>,
        <<"optionable", JBool(TRUE)>> >>, LAMBDA kv : kv[2] # Absent))

\* the spec's scenario entry and its one-field variations, the empty
\* dictionary, and a dictionary whose three numeric fields are all unusable
AttributeDicts ==
    {Attributes(BaseAum, BasePrice, BaseExpenseRatio)}
    \cup {Attributes(v, BasePrice, BaseExpenseRatio) : v \in FieldVariants}
    \cup {Attributes(BaseAum, v, BaseExpenseRatio) : v \in FieldVariants}
    \cup {Attributes(BaseAum, BasePrice, v) : v \in FieldVariants}
    \cup {JDict(<<>>), Attributes(JNull, Str3("n", "/", "a"), Absent)}

\* per-ticker values that are no attribute dictionary
BadEntries == {JNull, Str3("b", "a", "d")}

EntryValues == AttributeDicts \cup BadEntries

\* {"data": {"data": {ticker: value, ...}}} for the first Len(values) tickers
Screener(values) ==
    JDict(<< <<"data", JDict(<< <<"data",
        JDict([i \in 1..Len(values) |-> <<Tickers[i], values[i]>>])>> >>)>> >>)

\* {"data": {"data": {...}}} whose keys are not upper-case symbols: a
\* lower-case key, the empty key, a mixed-case key next to an upper-case one
OddTickerPayloads ==
    LET base == Attributes(BaseAum, BasePrice, BaseExpenseRatio)
        of(entries) == JDict(<< <<"data", JDict(<< <<"data", JDict(entries)>> >>)>> >>)
    IN  { of(<< <<<<"s", "p", "y">>, base>> >>),
          of(<< <<<<>>, base>> >>),
          of(<< <<<<"S", "P", "Y">>, base>>, <<<<"Q", "q", "q">>, base>> >>) }

\* payloads that parse as JSON but are not the screener structure
MalformedPayloads ==
    { JDict(<< <<"data", JNull>> >>),
      JDict(<< <<"data", JDict(<<>>)>> >>),
      JDict(<< <<"data", JDict(<< <<"data", JNull>> >>)>> >>),
      JDict(<< <<"data", JDict(<< <<"status", JNum(200, 0)>> >>)>> >>) }

\* payloads without the top-level 'data' key
DatalessPayloads ==
    { JNull, JDict(<<>>), JDict(<< <<"status", JNum(200, 0)>> >>) }

\* the payloads with up to max entries
Payloads(max) ==
    DatalessPayloads \cup MalformedPayloads \cup OddTickerPayloads
    \cup UNION {{Screener(vs) : vs \in [1..n -> EntryValues]} : n \in 0..max}

----------------------------------------------------------------------------
(* _process_data step by step: the guard, the worker threads of            *)
(* executor.map, the collection of their results in input order, the frame *)

Pending == [st |-> "pending"]
Cancelled == [st |-> "cancelled"]
Done(out) == [st |-> "done", out |-> out]

NoResult == [ok |-> FALSE, exc |-> "none"]

\* the entries handed to executor.map (defined once the guard has passed)
Items == RawEntries(raw_data).val

\* lines 539-544: the guard, raw_data['data']['data'].items(), and
\* executor.map submitting one call per entry
ProcessDataBegin ==
    /\ norm_pc = "start"
    /\ IF LacksData(raw_data)
       THEN /\ norm_result' = Ok(EmptyFrame)
            /\ norm_pc' = "done"
            /\ UNCHANGED futures
       ELSE LET entries == RawEntries(raw_data)
            IN  IF ~entries.ok
                THEN /\ norm_result' = entries
                     /\ norm_pc' = "done"
                     /\ UNCHANGED futures
                ELSE /\ futures' = [i \in 1..Len(entries.val) |-> Pending]
                     /\ norm_pc' = IF Len(entries.val) = 0 THEN "frame" ELSE "map"
                     /\ UNCHANGED norm_result
    /\ UNCHANGED <<raw_data, processed_data, first_result>>
    /\ UNCHANGED <<app_vars, merge_vars, s3_vars, export_vars>>

\* workers that draw their entry from one shared iterator: the call for
\* entry i gets whichever entry is next when its thread starts
WorkerSharingIterator(i) ==
    /\ norm_pc = "map"
    /\ futures[i] = Pending
    /\ LET next == 1 + Cardinality({j \in 1..Len(futures) : futures[j].st = "done"})
       IN  futures' = [futures EXCEPT ![i] = Done(_process_etf_entry(Items[next]))]
    /\ UNCHANGED <<raw_data, norm_pc, processed_data, norm_result, first_result>>
    /\ UNCHANGED <<app_vars, merge_vars, s3_vars, export_vars>>

\* d without the key k
WithoutKey(d, k) == JDict(SelectSeq(d.items, LAMBDA kv : kv[1] # k))

\* a worker that reads the AUM with data.pop('aum', 0): the key leaves the
\* caller's attribute dictionary
WorkerPoppingAum(i) ==
    /\ norm_pc = "map"
    /\ futures[i] = Pending
    /\ futures' = [futures EXCEPT ![i] = Done(_process_etf_entry(Items[i]))]
    /\ raw_data' = JDict(<< <<"data", JDict(<< <<"data",
           JDict([j \in 1..Len(Items) |->
                    IF j = i /\ Items[j][2].t = "dict"
                    THEN <<Items[j][1], WithoutKey(Items[j][2], "aum")>>
                    ELSE Items[j]])>> >>)>> >>)
    /\ UNCHANGED <<norm_pc, processed_data, norm_result, first_result>>
    /\ UNCHANGED <<app_vars, merge_vars, s3_vars, export_vars>>

\* a worker thread runs _process_etf_entry on entry i; the call's exception
\* is kept in its future
Worker(i) ==
    /\ norm_pc = "map"
    /\ futures[i] = Pending
    /\ futures' = [futures EXCEPT ![i] = Done(_process_etf_entry(Items[i]))]
    /\ UNCHANGED <<raw_data, norm_pc, processed_data, norm_result, first_result>>
    /\ UNCHANGED <<app_vars, merge_vars, s3_vars, export_vars>>

\* the results taken as the calls complete (as_completed) instead of in
\* input order
CollectCompleted ==
    /\ norm_pc = "map"
    /\ \E k \in 1..Len(futures) :
          /\ futures[k].st = "done"
          /\ IF futures[k].out.ok
             THEN /\ processed_data' = Append(processed_data, futures[k].out.val)
                  /\ futures' = [futures EXCEPT ![k] = [st |-> "collected"]]
                  /\ norm_pc' = IF Len(processed_data) + 1 = Len(futures)
                                 THEN "frame" ELSE "map"
                  /\ UNCHANGED norm_result
             ELSE /\ futures' = [i \in 1..Len(futures) |->
                                   IF futures[i] = Pending THEN Cancelled ELSE futures[i]]
                  /\ norm_result' = futures[k].out
                  /\ norm_pc' = "done"
                  /\ UNCHANGED processed_data
    /\ UNCHANGED <<raw_data, first_result>>
    /\ UNCHANGED <<app_vars, merge_vars, s3_vars, export_vars>>

\* list(...) takes the next result in input order; an exception cancels the
\* calls not yet started and leaves _process_data
CollectNext ==
    /\ norm_pc = "map"
    /\ LET k == Len(processed_data) + 1
       IN  /\ k <= Len(futures)
           /\ futures[k].st = "done"
           /\ IF futures[k].out.ok
              THEN /\ processed_data' = Append(processed_data, futures[k].out.val)
                   /\ norm_pc' = IF k = Len(futures) THEN "frame" ELSE "map"
                   /\ UNCHANGED <<futures, norm_result>>
              ELSE /\ futures' = [i \in 1..Len(futures) |->
                                    IF futures[i] = Pending THEN Cancelled ELSE futures[i]]
                   /\ norm_result' = futures[k].out
                   /\ norm_pc' = "done"
                   /\ UNCHANGED processed_data
    /\ UNCHANGED <<raw_data, first_result>>
    /\ UNCHANGED <<app_vars, merge_vars, s3_vars, export_vars>>

\* lines 546-547: pd.DataFrame(processed_data), then _enhance_dataframe
BuildFrame ==
    /\ norm_pc = "frame"
    /\ norm_result' = _enhance_dataframe(DataFrame(processed_data))
    /\ norm_pc' = "done"
    /\ UNCHANGED <<raw_data, futures, processed_data, first_result>>
    /\ UNCHANGED <<app_vars, merge_vars, s3_vars, export_vars>>

\* _process_data is called once more on the same payload (line 536, a second
\* fetch_data handing over an equal document): a new executor, a new list
ProcessDataAgain ==
    /\ norm_pc = "done"
    /\ first_result = NoResult
    /\ first_result' = norm_result
    /\ norm_result' = NoResult
    /\ futures' = <<>>
    /\ processed_data' = <<>>
    /\ norm_pc' = "start"
    /\ UNCHANGED raw_data
    /\ UNCHANGED <<app_vars, merge_vars, s3_vars, export_vars>>

----------------------------------------------------------------------------
(* load_data behind st.cache_data(ttl=3600), and main                      *)

TTL == 3600
NumCallers == 2
MaxTime == 3600
MaxFetches == 2

Callers == 1..NumCallers

\* the clock moves by just under, or exactly, half the time to live, so that
\* an entry is read both one second before and exactly at its expiry
TickSteps == {TTL \div 2 - 1, TTL \div 2}

NoEntry == [has |-> FALSE]
Entry(value, stored) == [has |-> TRUE, value |-> value, stored |-> stored]

All == Str3("A", "l", "l")

\* the widget values of a fresh session: both select boxes on "All", slider on 0
DefaultWidgets == [issuer |-> All, asset_class |-> All, min_aum |-> 0]

NothingShown == [state |-> "none", rows |-> <<>>, logged |-> FALSE]

\* aiohttp's DEFAULT_TIMEOUT, ClientTimeout(total=5*60), in seconds: what a
\* session created without a timeout argument applies to every request
ClientTimeoutTotal == 300

\* aiohttp.ClientSession(timeout=aiohttp.ClientTimeout(total=None)): no limit
SessionTimeoutNone == [bounded |-> FALSE, by_program |-> TRUE]

\* line 533: aiohttp.ClientSession() and line 534: session.get(url), neither
\* with a timeout argument, so the library's default total applies
SessionTimeout == [bounded |-> TRUE, total |-> ClientTimeoutTotal, by_program |-> FALSE]

NoRequest == [sent |-> -1]
Request(sent) == [sent |-> sent, timeout |-> SessionTimeout]

InFlight == request # NoRequest

\* when the request in flight is given up
Deadline == request.sent + request.timeout.total

\* how a request may end: the connection fails, the request times out
\* (aiohttp's ClientTimeout), the body is not JSON, or the remote answers
\* with a status line and a JSON document
JsonWithStatus(status, body) == [kind |-> "json", status |-> status, body |-> body]
Json(body) == JsonWithStatus(200, body)
Failure(exc) == [kind |-> "failure", exc |-> exc]
NoResponse == [kind |-> "none"]

\* an answer with an error status and a JSON body, as APIs send them
ErrorStatusResponses ==
    { JsonWithStatus(500, JDict(<< <<"error", Str3("o", "o", "p")>> >>)) }

Responses ==
    { Failure("ClientConnectorError"), Failure("TimeoutError"), Failure("ContentTypeError") }
    \cup ErrorStatusResponses
    \cup { Json(JDict(<< <<"status", JNum(200, 0)>> >>)),
           Json(JDict(<< <<"data", JDict(<<>>)>> >>)) }
    \cup {Json(Screener(vs)) : vs \in
            { <<>>,
              <<Attributes(BaseAum, BasePrice, BaseExpenseRatio),
                Attributes(Str3("n", "/", "a"), BasePrice, BaseExpenseRatio)>>,
              <<Attributes(JNum(999, 995001), JNull, BaseExpenseRatio),
                Attributes(BaseAum, BasePrice, BaseExpenseRatio)>> }}

\* pl.from_pandas: same columns and rows, NaN becomes null
FromPandas(df) ==
    Frame(df.columns,
          [i \in 1..Len(df.rows) |->
              [c \in DOMAIN df.rows[i] |->
                  IF df.rows[i][c].t = "nan" THEN JNull ELSE df.rows[i][c]]])

\* DataFrame.to_pandas: same columns and rows, null stays None
ToPandas(df) == Frame(df.columns, df.rows)

\* lines 533-536: the JSON document resp.json() returns goes to _process_data,
\* whatever the status of the response (nothing reads resp.status, and the
\* session is not told to raise for a status); a failed request or a body that
\* is not JSON raises
FetchData(response) ==
    IF response.kind = "failure" THEN Raise(response.exc)
    ELSE _process_data(response.body)

\* lines 584-589: the body of load_data
LoadDataBody(response) ==
    LET r == FetchData(response)
    IN  IF r.ok THEN Ok(FromPandas(r.val)) ELSE r

\* load_data's outcome for each way the request may end
Loaded == [r \in Responses |-> LoadDataBody(r)]

\* TTLCache: an entry is served while the clock is before stored + ttl
CacheValid == cache.has /\ now < cache.stored + TTL

\* lines 984-988: the AUM column without '$', ',' and 'M', through to_numeric
NumericAum(row) ==
    LET cell == row["ASSETS_UNDER_MANAGEMENT"]
    IN  IF cell.t # "str" THEN NaN
        ELSE ToNumeric(JStr(StrRemove(StrRemove(StrRemove(cell.v, "$"), ","), "M")))

\* Series comparison `numeric >= min_aum`: NaN compares false
AtLeast(x, m) == x.t = "num" /\ x.w >= m

RECURSIVE MaxWhole(_)
\* int(numeric_aum.max()) over the cells that are numbers, 0 when there is none
MaxWhole(nums) ==
    IF Len(nums) = 0 THEN 0
    ELSE LET rest == MaxWhole(Tail(nums))
         IN  IF Head(nums).t = "num" /\ Head(nums).w > rest THEN Head(nums).w ELSE rest

\* the distinct non-null values of a column (dropna().unique())
ColumnValues(df, c) == {df.rows[i][c] : i \in 1..Len(df.rows)} \ {JNull, NaN}

\* line 989: the slider's upper end
MaxAum(df) == MaxWhole([i \in 1..Len(df.rows) |-> NumericAum(df.rows[i])])

\* the widget values main reads: a stored value that is no longer among the
\* widget's options falls back to the default
Effective(df, w) ==
    [issuer      |-> IF w.issuer \in ColumnValues(df, "ETF_ISSUER") THEN w.issuer ELSE All,
     asset_class |-> IF w.asset_class \in ColumnValues(df, "ASSET_CLASS")
                     THEN w.asset_class ELSE All,
     min_aum     |-> IF w.min_aum <= MaxAum(df) THEN w.min_aum ELSE 0]

\* lines 993-1004: the three filters
Filtered(df, w) ==
    LET byIssuer == IF w.issuer # All
                    THEN SelectSeq(df.rows, LAMBDA r : r["ETF_ISSUER"] = w.issuer)
                    ELSE df.rows
        byClass  == IF w.asset_class # All
                    THEN SelectSeq(byIssuer, LAMBDA r : r["ASSET_CLASS"] = w.asset_class)
                    ELSE byIssuer
    IN  SelectSeq(byClass, LAMBDA r : AtLeast(NumericAum(r), w.min_aum))

\* lines 962-1037: the rest of main once load_data has returned or raised
Shown(loaded, w) ==
    IF ~loaded.ok
    THEN [state |-> "An error occurred", rows |-> <<>>, logged |-> TRUE]
    ELSE IF Len(loaded.val.rows) = 0
    THEN [state |-> "No data available", rows |-> <<>>, logged |-> FALSE]
    ELSE LET df == ToPandas(loaded.val)
         IN  [state |-> "grid", rows |-> Filtered(df, Effective(df, w)), logged |-> FALSE]

\* main calls load_data: the cache is read first (a hit returns the value and
\* main goes on to the end); a miss goes for the compute lock
MainStart(s) ==
    /\ pc[s] = "idle"
    /\ IF CacheValid
       THEN /\ etf_data' = [etf_data EXCEPT ![s] = Ok(cache.value)]
            /\ ui' = [ui EXCEPT ![s] = Shown(Ok(cache.value), widgets[s])]
            /\ pc' = [pc EXCEPT ![s] = "shown"]
       ELSE /\ pc' = [pc EXCEPT ![s] = "wait"]
            /\ UNCHANGED <<etf_data, ui>>
    /\ UNCHANGED <<now, cache, lock, widgets, resp, request, http_fetches, last_fetch_done>>
    /\ UNCHANGED <<norm_vars, merge_vars, s3_vars, export_vars>>

\* the caller gets the compute lock and reads the cache again: a value another
\* caller stored meanwhile is returned, otherwise load_data's body starts and
\* session.get sends the request
AcquireLock(s) ==
    /\ pc[s] = "wait"
    /\ lock = 0
    /\ IF CacheValid
       THEN /\ etf_data' = [etf_data EXCEPT ![s] = Ok(cache.value)]
            /\ ui' = [ui EXCEPT ![s] = Shown(Ok(cache.value), widgets[s])]
            /\ pc' = [pc EXCEPT ![s] = "shown"]
            /\ UNCHANGED <<lock, http_fetches, request>>
       ELSE /\ http_fetches < MaxFetches
            /\ lock' = s
            /\ request' = Request(now)
            /\ http_fetches' = http_fetches + 1
            /\ pc' = [pc EXCEPT ![s] = "fetch"]
            /\ UNCHANGED <<etf_data, ui>>
    /\ UNCHANGED <<now, cache, widgets, resp, last_fetch_done>>
    /\ UNCHANGED <<norm_vars, merge_vars, s3_vars, export_vars>>

\* the request ends, by the session's timeout once its total has run out and
\* in any other way before that: load_data returns a frame, which is stored
\* with the current time, or raises, which stores nothing; the lock is
\* released and main runs to its end (the no-data message, the grid, or the
\* except clause)
FetchComplete(s, response) ==
    /\ pc[s] = "fetch"
    /\ IF response = Failure("TimeoutError")
       THEN request.timeout.bounded /\ now >= Deadline
       ELSE request.timeout.bounded => now < Deadline
    /\ request' = NoRequest
    /\ LET loaded == Loaded[response]
       IN  /\ cache' = IF loaded.ok THEN Entry(loaded.val, now) ELSE cache
           /\ etf_data' = [etf_data EXCEPT ![s] = loaded]
           /\ ui' = [ui EXCEPT ![s] = Shown(loaded, widgets[s])]
    /\ last_fetch_done' = IF response.kind = "json" THEN now ELSE last_fetch_done
    /\ resp' = [resp EXCEPT ![s] = response]
    /\ lock' = 0
    /\ pc' = [pc EXCEPT ![s] = "shown"]
    /\ UNCHANGED <<now, widgets, http_fetches>>
    /\ UNCHANGED <<norm_vars, merge_vars, s3_vars, export_vars>>

\* the user changes a widget (or just reloads): the script runs again
Rerun(s, w) ==
    /\ pc[s] = "shown"
    /\ widgets' = [widgets EXCEPT ![s] = w]
    /\ pc' = [pc EXCEPT ![s] = "idle"]
    /\ ui' = [ui EXCEPT ![s] = NothingShown]
    /\ etf_data' = [etf_data EXCEPT ![s] = NoResult]
    /\ resp' = [resp EXCEPT ![s] = NoResponse]
    /\ UNCHANGED <<now, cache, lock, request, http_fetches, last_fetch_done>>
    /\ UNCHANGED <<norm_vars, merge_vars, s3_vars, export_vars>>

\* the values the user can pick in the widgets main drew: the issuer box or the
\* slider is moved away from its default, one at a time
WidgetChoices(s) ==
    IF ui[s].state # "grid" THEN {widgets[s]}
    ELSE LET df == ToPandas(etf_data[s].val)
         IN  {DefaultWidgets}
             \cup {[DefaultWidgets EXCEPT !.issuer = i] : i \in ColumnValues(df, "ETF_ISSUER")}
             \cup {[DefaultWidgets EXCEPT !.min_aum = MaxAum(df)]}

\* time passes; a request with a timeout is not in flight beyond its deadline
Tick(d) ==
    /\ now + d <= MaxTime
    /\ (InFlight /\ request.timeout.bounded) => now + d <= Deadline
    /\ now' = now + d
    /\ UNCHANGED <<cache, lock, pc, etf_data, ui, widgets, resp, request, http_fetches,
                   last_fetch_done>>
    /\ UNCHANGED <<norm_vars, merge_vars, s3_vars, export_vars>>

\* the remote does not answer: the time of the session's timeout runs out
TimerRuns ==
    /\ InFlight
    /\ request.timeout.bounded
    /\ now < Deadline
    /\ Deadline <= MaxTime
    /\ now' = Deadline
    /\ UNCHANGED <<cache, lock, pc, etf_data, ui, widgets, resp, request, http_fetches,
                   last_fetch_done>>
    /\ UNCHANGED <<norm_vars, merge_vars, s3_vars, export_vars>>

----------------------------------------------------------------------------
(* The Merger/Enricher.  streamlit_app.py has no enrichment step (its       *)
(* records carry no tag and no closing price); the variants of the script  *)
(* that have one are not among the sources, so this part follows section   *)
(* 4.3 of the specification: a left join of the tag onto the primary       *)
(* records by ticker, then the two comparison fields.  The derived fields  *)
(* hold signed amounts in hundredths (the specification leaves the sign's  *)
(* place in the formatted string open).                                    *)

MaxRecords == 2

\* a signed amount in hundredths
Hundredths(n) == [t |-> "hundredths", v |-> n]

\* a price as the Merger reads it: a number, or text that parses as one
Parseable(v) == v # Absent /\ ToNumeric(v) # NaN

\* a parseable price in hundredths
InHundredths(v) == LET n == ToNumeric(v) IN n.w * 100 + n.u \div 10000

LowerLetters == <<"a", "b", "c", "d", "e", "f", "g", "h", "i", "j", "k", "l", "m",
                  "n", "o", "p", "q", "r", "s", "t", "u", "v", "w", "x", "y", "z">>
UpperLetters == <<"A", "B", "C", "D", "E", "F", "G", "H", "I", "J", "K", "L", "M",
                  "N", "O", "P", "Q", "R", "S", "T", "U", "V", "W", "X", "Y", "Z">>

\* str.upper
Upper(str) ==
    [i \in 1..Len(str) |->
        IF \E k \in 1..26 : LowerLetters[k] = str[i]
        THEN UpperLetters[CHOOSE k \in 1..26 : LowerLetters[k] = str[i]]
        ELSE str[i]]

\* a join that folds the case of both keys
TagIgnoringCase(ticker, tickers) ==
    IF \E j \in 1..Len(tickers) : Upper(tickers[j]) = Upper(ticker)
    THEN JStr(<<"y", "e", "s">>) ELSE JStr(<<"n", "o">>)

\* the tag of a ticker: "yes" when the secondary source lists exactly this
\* ticker, "no" otherwise
Tag(ticker, tickers) ==
    IF \E j \in 1..Len(tickers) : tickers[j] = ticker
    THEN JStr(<<"y", "e", "s">>) ELSE JStr(<<"n", "o">>)

\* the left join: every primary record gains the tag
Joined(records, tickers) ==
    [i \in 1..Len(records) |->
        JDict(records[i].items
              \o << <<"ACTIVELY_MANAGED", Tag(Lookup(records[i], "TICKER_SYMBOL").v, tickers)>> >>)]

\* round-half-even of n / d, d > 0
RoundedQuotient(n, d) ==
    LET a == IF n < 0 THEN -n ELSE n
        q == a \div d
        r == a % d
        m == IF 2 * r > d \/ (2 * r = d /\ q % 2 = 1) THEN q + 1 ELSE q
    IN  IF n < 0 THEN -m ELSE m

\* comparison fields that fall back to zero when a price is missing
ComparisonFieldsOrZero(record) ==
    LET current == Get(record, "CURRENT_PRICE", Absent)
        closing == Get(record, "CLOSING_PRICE", Absent)
    IN  IF Parseable(current) /\ Parseable(closing)
        THEN LET change == InHundredths(current) - InHundredths(closing)
             IN  << <<"PRICE_CHANGE", Hundredths(change)>>,
                    <<"PRICE_CHANGE_PERCENT",
                      Hundredths(RoundedQuotient(change * 10000, InHundredths(closing)))>> >>
        ELSE << <<"PRICE_CHANGE", Hundredths(0)>>, <<"PRICE_CHANGE_PERCENT", Hundredths(0)>> >>

\* the comparison fields of a record: price-change = current - closing and
\* price-change-percent = (current - closing) / closing x 100 to two
\* decimals, when both prices are present and parseable; no field otherwise
ComparisonFields(record) ==
    LET current == Get(record, "CURRENT_PRICE", Absent)
        closing == Get(record, "CLOSING_PRICE", Absent)
    IN  IF Parseable(current) /\ Parseable(closing)
        THEN LET change == InHundredths(current) - InHundredths(closing)
             IN  << <<"PRICE_CHANGE", Hundredths(change)>>,
                    <<"PRICE_CHANGE_PERCENT",
                      Hundredths(RoundedQuotient(change * 10000, InHundredths(closing)))>> >>
        ELSE <<>>

WithComparisonFields(records) ==
    [i \in 1..Len(records) |-> JDict(records[i].items \o ComparisonFields(records[i]))]

\* what a price field of a primary record may hold
CurrentPrices == {Absent, JNull, Str3("n", "/", "a"), JNum(101, 0), JNum(99, 500000),
                  JStr(<<"1", "2", ".", "5">>)}
ClosingPrices == {Absent, JNull, Str3("n", "/", "a"), JNum(100, 0), JNum(33, 330000)}

PrimaryRecord(ticker, current, closing) ==
    JDict(SelectSeq(<< <<"TICKER_SYMBOL", JStr(ticker)>>,
                       <<"CURRENT_PRICE", current>>,
                       <<"CLOSING_PRICE", closing>> >>, LAMBDA kv : kv[2] # Absent))

\* the primary tickers, in order: QQQ first, then SPY, ...
PrimaryTickers == << <<"Q", "Q", "Q">>, <<"S", "P", "Y">>, <<"I", "V", "V">>, <<"V", "O", "O">> >>

\* the primary sequences of up to max records
PrimarySets(max) ==
    UNION {{[i \in 1..n |-> PrimaryRecord(PrimaryTickers[i], ps[i][1], ps[i][2])] :
               ps \in [1..n -> CurrentPrices \X ClosingPrices]} : n \in 0..max}

\* what the secondary source may list: nothing, QQQ, QQQ in lower case, both
\* of the first two tickers, a ticker the primary set does not hold
SecondarySets ==
    { <<>>, << <<"Q", "Q", "Q">> >>, << <<"q", "q", "q">> >>,
      << <<"S", "P", "Y">>, <<"Q", "Q", "Q">> >>, << <<"A", "R", "K">> >> }

\* the join
JoinTags ==
    /\ merge_pc = "start"
    /\ enriched' = Joined(primary, secondary)
    /\ merge_pc' = "joined"
    /\ UNCHANGED <<primary, secondary>>
    /\ UNCHANGED <<norm_vars, app_vars, s3_vars, export_vars>>

\* the comparison fields
ComputeChanges ==
    /\ merge_pc = "joined"
    /\ enriched' = WithComparisonFields(enriched)
    /\ merge_pc' = "done"
    /\ UNCHANGED <<primary, secondary>>
    /\ UNCHANGED <<norm_vars, app_vars, s3_vars, export_vars>>

----------------------------------------------------------------------------
(* S3Service.  st.cache_resource makes S3Service() one object for every    *)
(* session, so s3_client is shared by the sessions' script threads; every  *)
(* use of the client reads self.s3_client again.  A step is one access to  *)
(* the shared object together with the local code around it.  The S3       *)
(* endpoint answers as it likes: a call succeeds, fails with a ClientError *)
(* (404, 403) or fails with another exception.                             *)

MaxClients == 2
MaxRequests == 2

\* the object boto3.client returns, numbered in order of creation
Client(n) == [t |-> "client", id |-> n]

NoRequests == [head_bucket |-> 0, create_bucket |-> 0, put_object |-> 0]

RequestCount == s3_requests.head_bucket + s3_requests.create_bucket + s3_requests.put_object

\* self.s3_client.<op>(...) on a client: the request goes out
Issue(op) == s3_requests' = [s3_requests EXCEPT ![op] = @ + 1]

\* how head_bucket ends: found, ClientError 404, ClientError 403, or an
\* exception that is no ClientError (no endpoint, no credentials)
HeadOutcomes == {"ok", "404", "403", "error"}

\* how boto3.client ends
CallOutcomes == {"ok", "error"}

\* an exception leaves _ensure_bucket_exists: Connect handles it at line 81,
\* the "Check Current Bucket" button lets it reach the except of main
EnsureRaises(s) ==
    /\ s3_pc' = [s3_pc EXCEPT ![s] = IF s3_op[s] = "connect" THEN "except" ELSE "idle"]
    /\ s3_op' = [s3_op EXCEPT ![s] = IF s3_op[s] = "connect" THEN "connect" ELSE "none"]
    /\ UNCHANGED connect_status

\* _ensure_bucket_exists returns; after line 79 Connect reports success (line 80)
EnsureReturns(s) ==
    /\ s3_pc' = [s3_pc EXCEPT ![s] = "idle"]
    /\ s3_op' = [s3_op EXCEPT ![s] = "none"]
    /\ connect_status' = IF s3_op[s] = "connect" THEN "success" ELSE connect_status

\* lines 70-78: the Connect button; boto3.client returns a client, which is
\* assigned to self.s3_client, or raises
Connect(s, outcome) ==
    /\ s3_pc[s] = "idle"
    /\ clients_created < MaxClients
    /\ IF outcome = "ok"
       THEN /\ clients_created' = clients_created + 1
            /\ s3_client' = Client(clients_created + 1)
            /\ s3_pc' = [s3_pc EXCEPT ![s] = "ensure"]
       ELSE /\ s3_pc' = [s3_pc EXCEPT ![s] = "except"]
            /\ UNCHANGED <<clients_created, s3_client>>
    /\ s3_op' = [s3_op EXCEPT ![s] = "connect"]
    /\ UNCHANGED <<s3_requests, connect_status>>
    /\ UNCHANGED <<norm_vars, app_vars, merge_vars, export_vars>>

\* lines 81-83 with line 83 left out: the failed attempt keeps the client
ConnectExceptKeepingClient(s) ==
    /\ s3_pc[s] = "except"
    /\ connect_status' = "error"
    /\ s3_pc' = [s3_pc EXCEPT ![s] = "idle"]
    /\ s3_op' = [s3_op EXCEPT ![s] = "none"]
    /\ UNCHANGED <<s3_client, clients_created, s3_requests>>
    /\ UNCHANGED <<norm_vars, app_vars, merge_vars, export_vars>>

\* lines 81-83: the except block of Connect shows the error and sets
\* self.s3_client = None
ConnectExcept(s) ==
    /\ s3_pc[s] = "except"
    /\ connect_status' = "error"
    /\ s3_client' = JNull
    /\ s3_pc' = [s3_pc EXCEPT ![s] = "idle"]
    /\ s3_op' = [s3_op EXCEPT ![s] = "none"]
    /\ UNCHANGED <<clients_created, s3_requests>>
    /\ UNCHANGED <<norm_vars, app_vars, merge_vars, export_vars>>

\* lines 102-103: the "Check Current Bucket" button calls _ensure_bucket_exists
CheckCurrentBucket(s) ==
    /\ s3_pc[s] = "idle"
    /\ RequestCount < MaxRequests
    /\ s3_pc' = [s3_pc EXCEPT ![s] = "ensure"]
    /\ s3_op' = [s3_op EXCEPT ![s] = "check"]
    /\ UNCHANGED <<s3_client, clients_created, s3_requests, connect_status>>
    /\ UNCHANGED <<norm_vars, app_vars, merge_vars, export_vars>>

\* lines 108-110: without a client _ensure_bucket_exists warns and returns
EnsureClient(s) ==
    /\ s3_pc[s] = "ensure"
    /\ IF s3_client = JNull
       THEN EnsureReturns(s)
       ELSE /\ s3_pc' = [s3_pc EXCEPT ![s] = "head"]
            /\ UNCHANGED <<s3_op, connect_status>>
    /\ UNCHANGED <<s3_client, clients_created, s3_requests>>
    /\ UNCHANGED <<norm_vars, app_vars, merge_vars, export_vars>>

\* lines 112-118 and 135-137: self.s3_client.head_bucket; on None the
\* attribute access raises AttributeError, which is no ClientError
HeadBucket(s, outcome) ==
    /\ s3_pc[s] = "head"
    /\ IF s3_client = JNull
       THEN /\ EnsureRaises(s)
            /\ UNCHANGED s3_requests
       ELSE /\ Issue("head_bucket")
            /\ CASE outcome \in {"ok", "403"} -> EnsureReturns(s)
                 [] outcome = "404" ->
                       /\ s3_pc' = [s3_pc EXCEPT ![s] = "create"]
                       /\ UNCHANGED <<s3_op, connect_status>>
                 [] outcome = "error" -> EnsureRaises(s)
    /\ UNCHANGED <<s3_client, clients_created>>
    /\ UNCHANGED <<norm_vars, app_vars, merge_vars, export_vars>>

\* lines 119-134: after a 404 the bucket is created; whether create_bucket
\* succeeds or raises, and also when the attribute access on a None client
\* raises AttributeError, the outcome is shown and the function returns
CreateBucket(s) ==
    /\ s3_pc[s] = "create"
    /\ IF s3_client = JNull THEN UNCHANGED s3_requests ELSE Issue("create_bucket")
    /\ EnsureReturns(s)
    /\ UNCHANGED <<s3_client, clients_created>>
    /\ UNCHANGED <<norm_vars, app_vars, merge_vars, export_vars>>

\* lines 141-151: auto_save_to_s3 warns and returns without a client,
\* otherwise builds the key and the CSV text
AutoSave(s) ==
    /\ s3_pc[s] = "idle"
    /\ RequestCount < MaxRequests
    /\ IF s3_client = JNull
       THEN UNCHANGED <<s3_pc, s3_op>>
       ELSE /\ s3_pc' = [s3_pc EXCEPT ![s] = "put"]
            /\ s3_op' = [s3_op EXCEPT ![s] = "save"]
    /\ UNCHANGED <<s3_client, clients_created, s3_requests, connect_status>>
    /\ UNCHANGED <<norm_vars, app_vars, merge_vars, export_vars>>

\* lines 153-166: self.s3_client.put_object; success is shown, an exception
\* (the AttributeError of a None client included) is shown and raised again
PutObject(s) ==
    /\ s3_pc[s] = "put"
    /\ IF s3_client = JNull THEN UNCHANGED s3_requests ELSE Issue("put_object")
    /\ s3_pc' = [s3_pc EXCEPT ![s] = "idle"]
    /\ s3_op' = [s3_op EXCEPT ![s] = "none"]
    /\ UNCHANGED <<s3_client, clients_created, connect_status>>
    /\ UNCHANGED <<norm_vars, app_vars, merge_vars, export_vars>>

----------------------------------------------------------------------------
(* The grid and export_dialog.  AgGrid is a component outside this file;   *)
(* what it returns is taken from its arguments (line 1021,                 *)
(* DataReturnMode.FILTERED_AND_SORTED): the rows of the frame it was given *)
(* that pass the grid's quick filter, in the grid's sort order, under the  *)
(* frame's columns.  A text is a sequence of items, one character each,    *)
(* except that a column name is one item (the fifteen names of lines       *)
(* 553-567 are letters and '_').                                           *)

\* a cell as text: None and NaN are the empty text (na_rep ''), a bool is
\* True or False, a whole number its digits
CellText(v) ==
    CASE v.t = "str"  -> v.v
      [] v.t = "bool" -> IF v.v THEN <<"T", "r", "u", "e">> ELSE <<"F", "a", "l", "s", "e">>
      [] v.t = "num"  -> Digits(v.w)
      [] OTHER        -> <<>>

\* the characters that make csv.writer quote a field (QUOTE_MINIMAL)
CsvSpecial == {",", "\"", "\n", "\r"}

RECURSIVE QuotesDoubled(_)
QuotesDoubled(f) ==
    IF Len(f) = 0 THEN <<>>
    ELSE (IF Head(f) = "\"" THEN <<"\"", "\"">> ELSE <<Head(f)>>) \o QuotesDoubled(Tail(f))

\* one field as csv.writer writes it
CsvField(f) ==
    IF \E i \in 1..Len(f) : f[i] \in CsvSpecial
    THEN <<"\"">> \o QuotesDoubled(f) \o <<"\"">>
    ELSE f

RECURSIVE CsvLine(_)
\* one record: the fields, ',' between them, the line terminator
CsvLine(fields) ==
    IF Len(fields) = 0 THEN <<"\n">>
    ELSE CsvField(Head(fields))
         \o (IF Len(fields) = 1 THEN <<"\n">> ELSE <<",">> \o CsvLine(Tail(fields)))

RECURSIVE Concat(_)
Concat(seqs) == IF Len(seqs) = 0 THEN <<>> ELSE Head(seqs) \o Concat(Tail(seqs))

\* the header fields and the fields of each row of a frame
HeaderFields(df) == [k \in 1..Len(df.columns) |-> <<df.columns[k]>>]
RowFields(df, i) == [k \in 1..Len(df.columns) |-> CellText(df.rows[i][df.columns[k]])]

\* data.to_csv() with the default index=True: a first column with the row
\* labels 0, 1, ... under an empty name
ToCsvWithIndex(df) ==
    CsvLine(<< <<>> >> \o HeaderFields(df))
    \o Concat([i \in 1..Len(df.rows) |-> CsvLine(<<Digits(i - 1)>> \o RowFields(df, i))])

\* line 930: data.to_csv(index=False)
ToCsv(df) ==
    CsvLine(HeaderFields(df))
    \o Concat([i \in 1..Len(df.rows) |-> CsvLine(RowFields(df, i))])

\* an empty spreadsheet cell
Blank == [t |-> "blank"]

\* a value as to_excel writes it: None and NaN leave the cell empty
ExcelCell(v) == IF v.t \in {"null", "nan"} THEN Blank ELSE v

\* lines 940-944: data.to_excel(writer, index=False, sheet_name='Sheet1'),
\* the header row and one row per record
ToExcel(df) ==
    [sheet_name |-> "Sheet1",
     cells |-> << [k \in 1..Len(df.columns) |-> JStr(<<df.columns[k]>>)] >>
               \o [i \in 1..Len(df.rows) |->
                     [k \in 1..Len(df.columns) |-> ExcelCell(df.rows[i][df.columns[k]])]]]

NoPayload == [format |-> "none"]

\* lines 927-951: the bytes handed to the download button
ExportPayload(format, data) ==
    IF format = "CSV"
    THEN [format |-> "CSV", file_name |-> "exported_data.csv", text |-> ToCsv(data)]
    ELSE [format |-> "Excel", file_name |-> "exported_data.xlsx", book |-> ToExcel(data)]

ExportFormats == {"CSV", "Excel"}

\* hay contains needle
Contains(hay, needle) ==
    \E i \in 0..(Len(hay) - Len(needle)) : SubSeq(hay, i + 1, i + Len(needle)) = needle

\* the grid's quick filter (line 1014): a row passes when the text of one of
\* its cells contains the word, case ignored; no word, no filter
PassesQuickFilter(row, columns, word) ==
    \/ word = <<>>
    \/ \E k \in 1..Len(columns) : Contains(Upper(CellText(row[columns[k]])), Upper(word))

\* the place of a letter in the alphabet
LetterRank(c) == CHOOSE k \in 1..26 : UpperLetters[k] = c

RECURSIVE TextBefore(_, _)
\* a sorts before b (texts of upper-case letters)
TextBefore(a, b) ==
    IF Len(b) = 0 THEN FALSE
    ELSE IF Len(a) = 0 THEN TRUE
    ELSE IF Head(a) = Head(b) THEN TextBefore(Tail(a), Tail(b))
    ELSE LetterRank(Head(a)) < LetterRank(Head(b))

RECURSIVE SortedByTicker(_)
\* the rows in ascending order of TICKER_SYMBOL (insertion sort, stable)
SortedByTicker(rows) ==
    IF Len(rows) <= 1 THEN rows
    ELSE LET last  == rows[Len(rows)]
             front == SortedByTicker(SubSeq(rows, 1, Len(rows) - 1))
             key(r) == r["TICKER_SYMBOL"].v
             before == SelectSeq(front, LAMBDA r : ~TextBefore(key(last), key(r)))
             after  == SelectSeq(front, LAMBDA r : TextBefore(key(last), key(r)))
         IN  before \o <<last>> \o after

Reversed(s) == [i \in 1..Len(s) |-> s[Len(s) + 1 - i]]

\* the states of the TICKER_SYMBOL header: not sorted, ascending, descending
GridSorts == {"none", "asc", "desc"}

\* response['data'] of line 1033 under FILTERED_AND_SORTED
GridRows(df, sort, word) ==
    LET passed == SelectSeq(df.rows, LAMBDA r : PassesQuickFilter(r, df.columns, word))
    IN  Frame(df.columns,
              CASE sort = "asc"  -> SortedByTicker(passed)
                [] sort = "desc" -> Reversed(SortedByTicker(passed))
                [] OTHER         -> passed)

\* d with the value of key k replaced
WithValue(d, k, v) ==
    JDict([i \in 1..Len(d.items) |-> IF d.items[i][1] = k THEN <<k, v>> ELSE d.items[i]])

\* the entries of the tables that are exported: the scenario entry (its AUM
\* shows as "$450,000.00M", with a comma), one whose name holds a comma and a
\* quote, one of another issuer, one whose AUM and price are blank
ExportEntries ==
    LET base == Attributes(BaseAum, BasePrice, BaseExpenseRatio)
    IN  { base,
          WithValue(base, "n", JStr(<<"a", ",", "\"", "b">>)),
          WithValue(base, "issuer", Str3("V", "n", "g")),
          Attributes(JNull, Str3("n", "/", "a"), Absent) }

\* line 975: etf_data.to_pandas() for the payloads of 1..max such entries
ExportTables(max) ==
    UNION {{ToPandas(FromPandas(_process_data(Screener(vs)).val)) :
               vs \in [1..n -> ExportEntries]} : n \in 1..max}

\* what the user types into "Global Quick Search": nothing, a ticker, a word
\* in lower case
QuickSearches == {<<>>, <<"Q", "Q", "Q">>, <<"s", "p">>}

\* the widget values the user may have picked (lines 977-990)
ExportWidgets(df) ==
    {DefaultWidgets}
    \cup {[DefaultWidgets EXCEPT !.issuer = i] : i \in ColumnValues(df, "ETF_ISSUER")}
    \cup {[DefaultWidgets EXCEPT !.min_aum = MaxAum(df)]}

\* lines 971-1029: a script run filters the table, draws the grid with the
\* quick search text and gets the grid's rows back
RenderGrid(w, word) ==
    /\ export_pc \in {"loaded", "grid", "exported"}
    /\ w \in ExportWidgets(etf_data_pd)
    /\ LET rows == Filtered(etf_data_pd, Effective(etf_data_pd, w))
           df   == Frame(etf_data_pd.columns, rows)
       IN  /\ filtered_data' = df
           /\ grid_response' = GridRows(df, grid_sort, word)
    /\ quick_search' = word
    /\ export_payload' = NoPayload
    /\ export_pc' = "grid"
    /\ UNCHANGED <<etf_data_pd, grid_sort>>
    /\ UNCHANGED <<norm_vars, app_vars, merge_vars, s3_vars>>

\* the user clicks the TICKER_SYMBOL header: the grid sorts its rows and
\* (update_mode MODEL_CHANGED) the script runs again with the new rows
SortGrid(sort) ==
    /\ export_pc \in {"grid", "exported"}
    /\ sort # grid_sort
    /\ grid_sort' = sort
    /\ grid_response' = GridRows(filtered_data, sort, quick_search)
    /\ export_payload' = NoPayload
    /\ export_pc' = "grid"
    /\ UNCHANGED <<etf_data_pd, filtered_data, quick_search>>
    /\ UNCHANGED <<norm_vars, app_vars, merge_vars, s3_vars>>

\* lines 1032-1033 and 927-951: "Export Data", a format, "Export":
\* export_dialog builds the payload from pd.DataFrame(response['data'])
ExportData(format) ==
    /\ export_pc = "grid"
    /\ export_payload' = ExportPayload(format, grid_response)
    /\ export_pc' = "exported"
    /\ UNCHANGED <<etf_data_pd, filtered_data, quick_search, grid_sort, grid_response>>
    /\ UNCHANGED <<norm_vars, app_vars, merge_vars, s3_vars>>

----------------------------------------------------------------------------
(* Specifications *)

ExportIdle ==
    /\ etf_data_pd = EmptyFrame
    /\ filtered_data = EmptyFrame
    /\ quick_search = <<>>
    /\ grid_sort = "none"
    /\ grid_response = EmptyFrame
    /\ export_payload = NoPayload
    /\ export_pc = "idle"

S3Idle ==
    /\ s3_client = JNull
    /\ clients_created = 0
    /\ s3_requests = NoRequests
    /\ connect_status = "none"
    /\ s3_pc = [s \in Callers |-> "idle"]
    /\ s3_op = [s \in Callers |-> "none"]

MergeIdle ==
    /\ primary = <<>>
    /\ secondary = <<>>
    /\ enriched = <<>>
    /\ merge_pc = "done"

NormIdle ==
    /\ raw_data = JNull
    /\ norm_pc = "done"
    /\ futures = <<>>
    /\ processed_data = <<>>
    /\ norm_result = NoResult
    /\ first_result = NoResult

AppIdle ==
    /\ now = 0
    /\ cache = NoEntry
    /\ lock = 0
    /\ pc = [s \in Callers |-> "idle"]
    /\ etf_data = [s \in Callers |-> NoResult]
    /\ ui = [s \in Callers |-> NothingShown]
    /\ widgets = [s \in Callers |-> DefaultWidgets]
    /\ resp = [s \in Callers |-> NoResponse]
    /\ request = NoRequest
    /\ http_fetches = 0
    /\ last_fetch_done = -1

\* the Normalizer on every payload
InitNorm ==
    /\ raw_data \in Payloads(MaxEntries)
    /\ norm_pc = "start"
    /\ futures = <<>>
    /\ processed_data = <<>>
    /\ norm_result = NoResult
    /\ first_result = NoResult
    /\ AppIdle
    /\ MergeIdle
    /\ S3Idle
    /\ ExportIdle

NextNorm ==
    \/ ProcessDataBegin
    \/ \E i \in 1..Len(futures) : Worker(i)
    \/ CollectNext
    \/ BuildFrame
    \/ ProcessDataAgain

SpecNorm == InitNorm /\ [][NextNorm]_vars

\* the dashboard: callers running main against the cached load_data
Init == NormIdle /\ AppIdle /\ MergeIdle /\ S3Idle /\ ExportIdle

Next ==
    \/ \E s \in Callers : MainStart(s)
    \/ \E s \in Callers : AcquireLock(s)
    \/ \E s \in Callers, r \in Responses : FetchComplete(s, r)
    \/ \E s \in Callers : \E w \in WidgetChoices(s) : Rerun(s, w)
    \/ \E d \in TickSteps : Tick(d)
    \/ TimerRuns

Spec == Init /\ [][Next]_vars

\* the Merger on every pair of a primary sequence and a secondary listing
InitMerge ==
    /\ primary \in PrimarySets(MaxRecords)
    /\ secondary \in SecondarySets
    /\ enriched = <<>>
    /\ merge_pc = "start"
    /\ NormIdle
    /\ AppIdle
    /\ S3Idle
    /\ ExportIdle

NextMerge ==
    \/ JoinTags
    \/ ComputeChanges

SpecMerge == InitMerge /\ [][NextMerge]_vars

\* S3Service as __init__ leaves it (lines 32-35), used by every session
InitS3 == S3Idle /\ NormIdle /\ AppIdle /\ MergeIdle /\ ExportIdle

NextS3 ==
    \/ \E s \in Callers, o \in CallOutcomes : Connect(s, o)
    \/ \E s \in Callers : ConnectExcept(s)
    \/ \E s \in Callers : CheckCurrentBucket(s)
    \/ \E s \in Callers : EnsureClient(s)
    \/ \E s \in Callers, o \in HeadOutcomes : HeadBucket(s, o)
    \/ \E s \in Callers : CreateBucket(s)
    \/ \E s \in Callers : AutoSave(s)
    \/ \E s \in Callers : PutObject(s)

SpecS3 == InitS3 /\ [][NextS3]_vars

\* main with a loaded table of at least one row, the grid not drawn yet
InitExport ==
    /\ etf_data_pd \in ExportTables(MaxEntries)
    /\ filtered_data = EmptyFrame
    /\ quick_search = <<>>
    /\ grid_sort = "none"
    /\ grid_response = EmptyFrame
    /\ export_payload = NoPayload
    /\ export_pc = "loaded"
    /\ NormIdle
    /\ AppIdle
    /\ MergeIdle
    /\ S3Idle

NextExport ==
    \/ \E word \in QuickSearches : \E w \in ExportWidgets(etf_data_pd) : RenderGrid(w, word)
    \/ \E sort \in GridSorts : SortGrid(sort)
    \/ \E format \in ExportFormats : ExportData(format)

SpecExport == InitExport /\ [][NextExport]_vars

----------------------------------------------------------------------------
(* Properties of the Normalizer, checked under SpecNorm                    *)

Finished == norm_pc = "done"

\* the payload has the screener structure: data.data is a mapping
HasEntries == ~LacksData(raw_data) /\ RawEntries(raw_data).ok

\* every per-ticker value is an attribute dictionary
AllDicts == \A i \in 1..Len(Items) : Items[i][2].t = "dict"

\* the value entry i holds under a source key, Absent when it has no such key
Source(i, key) == Get(Items[i][2], key, Absent)

RowsOf(result) == result.val.rows

\* the rows of the table whose TICKER_SYMBOL is the given ticker
RowsWithTicker(result, ticker) ==
    {j \in 1..Len(RowsOf(result)) : RowsOf(result)[j]["TICKER_SYMBOL"] = JStr(ticker)}

\* C1: for a payload whose data.data holds n >= 1 entries, each an attribute
\* dictionary, _process_data returns a table with exactly n rows, and every
\* input ticker is the TICKER_SYMBOL of exactly one row.
C1_OneRecordPerEntry ==
    (Finished /\ HasEntries /\ Len(Items) >= 1 /\ AllDicts)
        => /\ norm_result.ok
           /\ Len(RowsOf(norm_result)) = Len(Items)
           /\ \A i \in 1..Len(Items) :
                 Cardinality(RowsWithTicker(norm_result, Items[i][1])) = 1

C1_Witness ==
    /\ Finished /\ HasEntries /\ Len(Items) = 2 /\ AllDicts
    /\ norm_result.ok
    /\ Len(RowsOf(norm_result)) = 2

NumericFields ==
    { <<"price", "CURRENT_PRICE">>, <<"aum", "ASSETS_UNDER_MANAGEMENT">>,
      <<"expenseRatio", "EXPENSE_RATIO">> }

\* a source value that is missing or not numeric: no key, null, or text that
\* is no number
Unusable(v) == v = Absent \/ v.t = "null" \/ (v.t = "str" /\ ParseFloat(v.v) = NaN)

\* C2: for each of price, aum and expenseRatio, a source value that is
\* missing or not numeric gives an empty formatted cell, never a formatted
\* zero, and raises nothing.
C2_UnusableIsBlank ==
    (Finished /\ HasEntries /\ Len(Items) >= 1 /\ AllDicts)
        => /\ norm_result.ok
           /\ \A i \in 1..Len(Items) : \A f \in NumericFields :
                 Unusable(Source(i, f[1])) => RowsOf(norm_result)[i][f[2]] = EmptyStr

\* what CPython prints for f"${x:,.2f}" on the numbers of the input set
ExpectedCurrency(x) ==
    CASE x = JNum(450000, 0) -> <<"$", "4", "5", "0", ",", "0", "0", "0", ".", "0", "0">>
      [] x = JNum(560, 120000) -> <<"$", "5", "6", "0", ".", "1", "2">>
      [] x = JNum(0, 94500) -> <<"$", "0", ".", "0", "9">>
      [] x = JNum(0, 0) -> <<"$", "0", ".", "0", "0">>
      [] x = JNum(999, 995001) -> <<"$", "1", ",", "0", "0", "0", ".", "0", "0">>

\* what CPython prints for f"{x:.2%}" on the numbers of the input set
ExpectedPercent(x) ==
    CASE x = JNum(450000, 0) -> <<"4", "5", "0", "0", "0", "0", "0", "0", ".", "0", "0", "%">>
      [] x = JNum(560, 120000) -> <<"5", "6", "0", "1", "2", ".", "0", "0", "%">>
      [] x = JNum(0, 94500) -> <<"9", ".", "4", "5", "%">>
      [] x = JNum(0, 0) -> <<"0", ".", "0", "0", "%">>
      [] x = JNum(999, 995001) -> <<"9", "9", "9", "9", "9", ".", "5", "0", "%">>

IsNumber(v) == v.t = "num"

\* C3: for an entry with numeric price p, AUM a and expense ratio e the record
\* carries p as '$', thousands separators, two decimals; a in the same form
\* followed by 'M'; e x 100 with two decimals followed by '%'
\* (450000, 560.12, 0.0945 give "$450,000.00M", "$560.12", "9.45%").
C3_DisplayStrings ==
    (Finished /\ HasEntries /\ Len(Items) >= 1 /\ AllDicts)
        => /\ norm_result.ok
           /\ \A i \in 1..Len(Items) :
                 LET p   == Source(i, "price")
                     a   == Source(i, "aum")
                     e   == Source(i, "expenseRatio")
                     row == RowsOf(norm_result)[i]
                 IN  (IsNumber(p) /\ IsNumber(a) /\ IsNumber(e))
                        => /\ row["CURRENT_PRICE"] = JStr(ExpectedCurrency(p))
                           /\ row["ASSETS_UNDER_MANAGEMENT"] = JStr(ExpectedCurrency(a) \o <<"M">>)
                           /\ row["EXPENSE_RATIO"] = JStr(ExpectedPercent(e))

C3_Witness ==
    /\ Finished /\ HasEntries /\ Len(Items) = 2 /\ AllDicts
    /\ Source(1, "aum") = JNum(999, 995001)
    /\ Source(2, "aum") = JNum(450000, 0)
    /\ Source(2, "price") = JNum(560, 120000)
    /\ Source(2, "expenseRatio") = JNum(0, 94500)
    /\ norm_result.ok
    /\ RowsOf(norm_result)[1]["ASSETS_UNDER_MANAGEMENT"]
          = JStr(<<"$", "1", ",", "0", "0", "0", ".", "0", "0", "M">>)
    /\ RowsOf(norm_result)[2]["ASSETS_UNDER_MANAGEMENT"]
          = JStr(<<"$", "4", "5", "0", ",", "0", "0", "0", ".", "0", "0", "M">>)
    /\ RowsOf(norm_result)[2]["CURRENT_PRICE"] = JStr(<<"$", "5", "6", "0", ".", "1", "2">>)
    /\ RowsOf(norm_result)[2]["EXPENSE_RATIO"] = JStr(<<"9", ".", "4", "5", "%">>)

\* the renaming table: canonical field, source key
PlainFields ==
    { <<"ETF_ISSUER", "issuer">>, <<"ETF_DESCRIPTION", "n">>, <<"ASSET_CLASS", "assetClass">>,
      <<"INCEPTION_DATE", "inceptionDate">>, <<"NUMBER_OF_HOLDINGS", "holdings">>,
      <<"CUSIP", "cusip">>, <<"ETF_CATEGORY", "etfCategory">>,
      <<"TRACKING_INDEX", "etfIndex">>, <<"GEOGRAPHIC_REGION", "etfRegion">>,
      <<"COUNTRY_FOCUS", "etfCountry">>, <<"HAS_OPTIONS", "optionable">> }

CanonicalFields ==
    {"TICKER_SYMBOL"} \cup {f[1] : f \in PlainFields} \cup {f[2] : f \in NumericFields}

UnmappedKeys == {"exchange", "etfLeverage", "close", "isin"}

ColumnSet(df) == {df.columns[i] : i \in 1..Len(df.columns)}

\* C4: every record has exactly the fifteen canonical fields, whatever keys
\* its entry has; TICKER_SYMBOL is the ticker key, each other field holds the
\* value of its one source key (the three numeric ones formatted), and
\* exchange, etfLeverage, close and isin never appear.
C4_CanonicalFieldSet ==
    (Finished /\ HasEntries /\ Len(Items) >= 1 /\ AllDicts)
        => /\ norm_result.ok
           /\ ColumnSet(norm_result.val) = CanonicalFields
           /\ Len(norm_result.val.columns) = 15
           /\ ColumnSet(norm_result.val) \cap UnmappedKeys = {}
           /\ \A i \in 1..Len(Items) :
                 LET row == RowsOf(norm_result)[i]
                 IN  /\ DOMAIN row = CanonicalFields
                     /\ row["TICKER_SYMBOL"] = JStr(Items[i][1])
                     /\ \A f \in PlainFields :
                           Source(i, f[2]) # Absent => row[f[1]] = Source(i, f[2])
                     /\ \A f \in NumericFields :
                           IsNumber(Source(i, f[1])) => row[f[2]] # EmptyStr

C4_Witness ==
    /\ Finished /\ HasEntries /\ Len(Items) = 2 /\ AllDicts
    /\ Items[1][2] = JDict(<<>>)
    /\ Source(2, "exchange") # Absent
    /\ Source(2, "isin") # Absent
    /\ norm_result.ok
    /\ DOMAIN RowsOf(norm_result)[1] = DOMAIN RowsOf(norm_result)[2]
    /\ RowsOf(norm_result)[2]["ETF_ISSUER"] = Str3("S", "S", "G")

\* C5: a payload that is null, empty, or has no top-level 'data' key gives an
\* empty table and raises nothing.
C5_NoDataKeyGivesEmptyTable ==
    (Finished /\ (raw_data.t = "null" \/ (raw_data.t = "dict" /\ ~HasKey(raw_data, "data"))))
        => /\ norm_result.ok
           /\ Len(RowsOf(norm_result)) = 0
           /\ norm_result.val = EmptyFrame

C5_Witness ==
    /\ Finished
    /\ raw_data = JDict(<< <<"status", JNum(200, 0)>> >>)
    /\ norm_result = Ok(EmptyFrame)

\* entry i is bad: no attribute dictionary, or one with a numeric field that
\* does not parse
BadEntry(i) ==
    \/ Items[i][2].t # "dict"
    \/ \E f \in NumericFields :
          LET v == Source(i, f[1]) IN v # Absent /\ Unusable(v)

\* C6: one bad record never discards the batch: with exactly one bad entry
\* among n >= 2, normalization completes and the records of all the other
\* entries are in the output.
C6_OneBadRecordKeepsBatch ==
    (Finished /\ HasEntries /\ Len(Items) >= 2 /\ Cardinality({i \in 1..Len(Items) : BadEntry(i)}) = 1)
        => /\ norm_result.ok
           /\ \A i \in 1..Len(Items) :
                 ~BadEntry(i) => Cardinality(RowsWithTicker(norm_result, Items[i][1])) = 1

\* the keys of the record literal of _process_etf_entry in the order written,
\* CUSIP taken out
FieldsInInsertionOrder ==
    <<"TICKER_SYMBOL", "ETF_ISSUER", "ETF_DESCRIPTION", "ASSET_CLASS", "INCEPTION_DATE",
      "ASSETS_UNDER_MANAGEMENT", "EXPENSE_RATIO", "NUMBER_OF_HOLDINGS", "CURRENT_PRICE",
      "ETF_CATEGORY", "TRACKING_INDEX", "GEOGRAPHIC_REGION", "COUNTRY_FOCUS", "HAS_OPTIONS">>

WithoutCusip(columns) == SelectSeq(columns, LAMBDA c : c # "CUSIP")

\* C11: in every table _process_data returns, CUSIP is the first column when
\* it is a column, the other columns follow in the order the records were
\* written in (TICKER_SYMBOL, ETF_ISSUER, ... HAS_OPTIONS), and apart from
\* CUSIP the order is that of the frame built from the records.
C11_CusipFirstOthersInOrder ==
    (Finished /\ norm_result.ok /\ HasColumn(norm_result.val, "CUSIP"))
        => /\ norm_result.val.columns = <<"CUSIP">> \o FieldsInInsertionOrder
           /\ WithoutCusip(norm_result.val.columns)
                 = WithoutCusip(DataFrame(processed_data).columns)
           /\ DataFrame(processed_data).columns[10] = "CUSIP"

C11_Witness ==
    /\ Finished /\ HasEntries /\ Len(Items) = 2 /\ AllDicts
    /\ norm_result.ok
    /\ norm_result.val.columns[1] = "CUSIP"
    /\ norm_result.val.columns[2] = "TICKER_SYMBOL"
    /\ norm_result.val.columns[10] = "CURRENT_PRICE"
    /\ norm_result.val.columns[11] = "ETF_CATEGORY"
    /\ Source(1, "cusip") = Absent
    /\ Source(2, "cusip") = Str3("7", "8", "4")

\* _process_data has been called a second time on the payload
CalledTwice == first_result # NoResult

\* C12: _process_data applied twice to the same payload gives the same
\* outcome both times: the same columns, the same rows in the same order with
\* the same values (or the same exception), whatever the workers' schedules.
C12_SecondCallGivesSameRecords ==
    (Finished /\ CalledTwice) => norm_result = first_result

C12_Witness ==
    /\ Finished /\ CalledTwice
    /\ HasEntries /\ Len(Items) = 2 /\ AllDicts
    /\ first_result.ok
    /\ Len(RowsOf(first_result)) = 2
    /\ norm_result = first_result

\* |a - b| is at most half a hundredth
WithinRounding(a, b) ==
    /\ a.w - b.w \in {-1, 0, 1}
    /\ LET d == (a.w - b.w) * 1000000 + (a.u - b.u)
       IN  d <= 5000 /\ -d <= 5000

\* one hundred times a number
Times100(x) == JNum(x.w * 100 + x.u \div 10000, (x.u % 10000) * 100)

\* a display string without '$', ',', 'M' and '%', read by pd.to_numeric
Reparsed(cell) ==
    IF cell.t # "str" THEN NaN
    ELSE ToNumeric(JStr(StrRemove(StrRemove(StrRemove(StrRemove(cell.v, "$"), ","), "M"), "%")))

\* the source value of entry i under a key is a number
NumericSource(i, key) == Source(i, key) # Absent /\ IsNumber(Source(i, key))

\* C13: for every record with numeric price, AUM and expense ratio, each of
\* the three display strings, stripped of '$', ',', 'M' and '%' and parsed,
\* is the number it was formatted from, within two-decimal rounding; for AUM
\* this is the number main's minimum-AUM filter compares.
C13_DisplayStringsParseBack ==
    (Finished /\ HasEntries /\ Len(Items) >= 1 /\ AllDicts /\ norm_result.ok)
        => \A i \in 1..Len(Items) :
              (NumericSource(i, "price") /\ NumericSource(i, "aum")
                    /\ NumericSource(i, "expenseRatio"))
                 => \A f \in NumericFields :
                       LET back == Reparsed(RowsOf(norm_result)[i][f[2]])
                       IN  /\ IsNumber(back)
                           /\ WithinRounding(back, Source(i, f[1]))

\* C13 as amended: price and AUM parse back to the number they were
\* formatted from, within two-decimal rounding, and the parsed AUM is the
\* number of main's filter; the expense ratio parses back to one hundred
\* times the number it was formatted from (the percentage), within
\* two-decimal rounding.
C13_ParseBackWithPercentScaled ==
    (Finished /\ HasEntries /\ Len(Items) >= 1 /\ AllDicts /\ norm_result.ok)
        => \A i \in 1..Len(Items) :
              (NumericSource(i, "price") /\ NumericSource(i, "aum")
                    /\ NumericSource(i, "expenseRatio"))
                 => LET row   == RowsOf(norm_result)[i]
                        price == Reparsed(row["CURRENT_PRICE"])
                        aum   == Reparsed(row["ASSETS_UNDER_MANAGEMENT"])
                        ratio == Reparsed(row["EXPENSE_RATIO"])
                    IN  /\ IsNumber(price) /\ IsNumber(aum) /\ IsNumber(ratio)
                        /\ WithinRounding(price, Source(i, "price"))
                        /\ WithinRounding(aum, Source(i, "aum"))
                        /\ aum = NumericAum(row)
                        /\ WithinRounding(ratio, Times100(Source(i, "expenseRatio")))

C13_Witness ==
    /\ Finished /\ HasEntries /\ Len(Items) = 2 /\ AllDicts /\ norm_result.ok
    /\ Source(1, "aum") = JNum(999, 995001)
    /\ Source(1, "price") = BasePrice
    /\ Source(1, "expenseRatio") = BaseExpenseRatio
    /\ Reparsed(RowsOf(norm_result)[1]["ASSETS_UNDER_MANAGEMENT"]) = JNum(1000, 0)
    /\ Reparsed(RowsOf(norm_result)[1]["CURRENT_PRICE"]) = JNum(560, 120000)
    /\ Reparsed(RowsOf(norm_result)[1]["EXPENSE_RATIO"]) = JNum(9, 450000)
    /\ Source(2, "aum") = BaseAum
    /\ Reparsed(RowsOf(norm_result)[2]["ASSETS_UNDER_MANAGEMENT"]) = JNum(450000, 0)

\* C14: no step of _process_data, of a worker running _process_etf_entry or
\* of _enhance_dataframe changes the raw payload (the mapping and every
\* attribute dictionary stay as they were handed over), sends an HTTP
\* request or writes to the log or the page.
C14_NormalizerLeavesInputAlone ==
    [][/\ raw_data' = raw_data
       /\ http_fetches' = http_fetches
       /\ ui' = ui]_vars

C14_Witness ==
    /\ Finished /\ CalledTwice
    /\ HasEntries /\ Len(Items) = 2
    /\ Items[1][2] = Attributes(BaseAum, BasePrice, BaseExpenseRatio)
    /\ Items[2][2] = Attributes(JNull, BasePrice, BaseExpenseRatio)
    /\ norm_result.ok
    /\ RowsOf(norm_result)[2]["ASSETS_UNDER_MANAGEMENT"] = EmptyStr
    /\ http_fetches = 0

\* C15: in every interleaving of the workers, the call for entry i yields
\* the flattening of entry i whatever the other workers have done, the k-th
\* record collected is the flattening of the k-th entry, and _process_data
\* ends with what a sequential map over the entries gives.
C15_WorkersEqualSequentialMap ==
    HasEntries
        => /\ \A i \in 1..Len(futures) :
                 futures[i].st = "done" => futures[i].out = _process_etf_entry(Items[i])
           /\ \A k \in 1..Len(processed_data) :
                 Ok(processed_data[k]) = _process_etf_entry(Items[k])
           /\ Finished => norm_result = _process_data(raw_data)

\* the second worker has finished before the first has started
C15_Witness ==
    /\ HasEntries /\ Len(Items) = 2 /\ AllDicts
    /\ norm_pc = "map"
    /\ futures[1] = Pending
    /\ futures[2].st = "done"
    /\ futures[2].out.ok
    /\ Items[1][2] # Items[2][2]
    /\ Lookup(futures[2].out.val, "TICKER_SYMBOL") = JStr(Items[2][1])

LowerCaseLetters ==
    {"a", "b", "c", "d", "e", "f", "g", "h", "i", "j", "k", "l", "m",
     "n", "o", "p", "q", "r", "s", "t", "u", "v", "w", "x", "y", "z"}

\* s.upper() = s
IsUpperCase(s) == \A i \in 1..Len(s) : s[i] \notin LowerCaseLetters

\* C16: in every table _process_data returns, also for payloads whose keys
\* are empty or lower-case strings, the TICKER_SYMBOL of every record is a
\* non-empty upper-case string.
C16_TickerNonEmptyUpperCase ==
    (Finished /\ norm_result.ok)
        => \A j \in 1..Len(RowsOf(norm_result)) :
              LET ticker == RowsOf(norm_result)[j]["TICKER_SYMBOL"]
              IN  /\ ticker.t = "str"
                  /\ Len(ticker.v) > 0
                  /\ IsUpperCase(ticker.v)

----------------------------------------------------------------------------
(* Properties of load_data and main, checked under Spec                    *)

\* caller s has run main to its end
Ended(s) == pc[s] = "shown"

\* C7: a retrieval failure or a malformed payload is caught inside
\* fetch_data / load_data and becomes an empty result plus a logged
\* diagnostic: load_data always hands main a table, never an exception.
C7_FailuresBecomeEmptyResults ==
    \A s \in Callers : Ended(s) => etf_data[s].ok

\* C8: every run of main in which the fetch fails or returns no records ends
\* in the one state "No data available.", with no other error state and no grid.
C8_SingleNoDataState ==
    \A s \in Callers :
        (Ended(s) /\ (~etf_data[s].ok \/ Len(RowsOf(etf_data[s])) = 0))
            => ui[s].state = "No data available"

\* C9: with the default filters every normalized record, also one whose AUM,
\* price or expense ratio is blank, is a row of the table handed to the grid,
\* and main reaches no error state.
C9_DefaultFiltersKeepEveryRow ==
    \A s \in Callers :
        (Ended(s) /\ etf_data[s].ok /\ Len(RowsOf(etf_data[s])) > 0
                  /\ widgets[s] = DefaultWidgets)
            => /\ ui[s].state = "grid"
               /\ ui[s].rows = RowsOf(etf_data[s])

\* C10: a load_data call made within 3600 s of a completed fetch (one whose
\* HTTP request returned a JSON document) returns the cached result and
\* triggers no HTTP fetch.
C10_CallWithinWindowIsServedFromCache ==
    [][\A s \in Callers :
          (pc[s] = "idle" /\ pc'[s] # "idle"
              /\ last_fetch_done >= 0 /\ now < last_fetch_done + TTL)
              => /\ pc'[s] = "shown"
                 /\ etf_data'[s].ok
                 /\ http_fetches' = http_fetches]_vars

\* the request of caller s ended in one of the three ways: an answer with a
\* status outside 200..299, a body that is not JSON, a timeout
Unsuccessful(r) ==
    \/ r.kind = "failure" /\ r.exc \in {"TimeoutError", "ContentTypeError"}
    \/ r.kind = "json" /\ r.status \notin 200..299

\* what a failed retrieval raises
RetrievalErrors == {"ClientConnectorError", "TimeoutError", "ContentTypeError",
                    "ClientResponseError"}

\* C17: when the remote answers with a non-success status, or with a body
\* that is not JSON, or the request times out, load_data's fetch fails with a
\* retrieval error: the body is not normalized, no table comes back.
C17_UnsuccessfulResponseFails ==
    \A s \in Callers :
        (Ended(s) /\ Unsuccessful(resp[s]))
            => /\ ~etf_data[s].ok
               /\ etf_data[s].exc \in RetrievalErrors

\* C18: every request of the Fetcher carries a bounded timeout that the
\* program sets, so that a fetch whose remote never answers ends in a failure
\* of the call.
C18_ProgramSetsBoundedTimeout ==
    \A s \in Callers :
        pc[s] = "fetch"
            => /\ InFlight
               /\ request.timeout.bounded
               /\ request.timeout.by_program

\* C18 as amended: every request of the Fetcher is bounded by the total
\* timeout aiohttp applies by default (300 s; the program sets none): no
\* request is in flight more than 300 s after it was sent, and when the 300 s
\* have run out the call ends, in a TimeoutError and in no other way, so
\* load_data returns or raises and its caller is not left waiting.
C18_DefaultTimeoutBoundsEveryFetch ==
    \A s \in Callers :
        /\ pc[s] = "fetch"
              => /\ InFlight
                 /\ request.timeout.bounded
                 /\ now <= request.sent + ClientTimeoutTotal
                 /\ now = request.sent + ClientTimeoutTotal
                       => /\ ENABLED FetchComplete(s, Failure("TimeoutError"))
                          /\ \A r \in Responses \ {Failure("TimeoutError")} :
                                ~ENABLED FetchComplete(s, r)
        /\ (Ended(s) /\ resp[s] = Failure("TimeoutError"))
              => etf_data[s] = Raise("TimeoutError")

C18_Witness ==
    \E s \in Callers :
        /\ Ended(s)
        /\ resp[s] = Failure("TimeoutError")
        /\ etf_data[s] = Raise("TimeoutError")
        /\ ui[s].state = "An error occurred"
        /\ now = ClientTimeoutTotal
        /\ ~InFlight
        /\ lock = 0

----------------------------------------------------------------------------
(* Properties of the Merger, checked under SpecMerge                       *)

Yes == JStr(<<"y", "e", "s">>)
No == JStr(<<"n", "o">>)

\* the secondary source lists exactly this ticker
Listed(ticker) == \E j \in 1..Len(secondary) : secondary[j] = ticker

TickerOf(record) == Lookup(record, "TICKER_SYMBOL").v

\* how many times a record has a key
KeyCount(record, key) == Cardinality({j \in 1..Len(record.items) : record.items[j][1] = key})

\* C19: after the join every record has exactly one actively-managed tag,
\* "yes" when the secondary source lists its ticker and "no" when it does
\* not, never a third value; tickers match by exact, case-sensitive equality
\* (secondary lists QQQ, primary holds QQQ and SPY: QQQ "yes", SPY "no").
C19_EveryRecordTaggedYesOrNo ==
    merge_pc \in {"joined", "done"}
        => /\ Len(enriched) = Len(primary)
           /\ \A i \in 1..Len(enriched) :
                 /\ TickerOf(enriched[i]) = TickerOf(primary[i])
                 /\ KeyCount(enriched[i], "ACTIVELY_MANAGED") = 1
                 /\ Lookup(enriched[i], "ACTIVELY_MANAGED") \in {Yes, No}
                 /\ Lookup(enriched[i], "ACTIVELY_MANAGED") = Yes
                       <=> Listed(TickerOf(primary[i]))

C19_Witness ==
    /\ merge_pc = "done"
    /\ secondary = << <<"Q", "Q", "Q">> >>
    /\ Len(primary) = 2
    /\ TickerOf(enriched[1]) = <<"Q", "Q", "Q">>
    /\ Lookup(enriched[1], "ACTIVELY_MANAGED") = Yes
    /\ TickerOf(enriched[2]) = <<"S", "P", "Y">>
    /\ Lookup(enriched[2], "ACTIVELY_MANAGED") = No

\* both prices of primary record i are present and numeric
BothPrices(i) ==
    /\ Parseable(Get(primary[i], "CURRENT_PRICE", Absent))
    /\ Parseable(Get(primary[i], "CLOSING_PRICE", Absent))

\* C20: a record has price-change and price-change-percent if and only if
\* both its current and its closing price are present and numeric; then
\* price-change = current - closing and price-change-percent =
\* (current - closing) / closing x 100 to two decimals; otherwise the record
\* has neither field (no zero stands in for them).
C20_ComparisonFieldsIffBothPrices ==
    merge_pc = "done"
        => /\ Len(enriched) = Len(primary)
           /\ \A i \in 1..Len(enriched) :
                 /\ HasKey(enriched[i], "PRICE_CHANGE") <=> BothPrices(i)
                 /\ HasKey(enriched[i], "PRICE_CHANGE_PERCENT") <=> BothPrices(i)
                 /\ BothPrices(i) =>
                       LET current == InHundredths(Get(primary[i], "CURRENT_PRICE", Absent))
                           closing == InHundredths(Get(primary[i], "CLOSING_PRICE", Absent))
                           change  == Lookup(enriched[i], "PRICE_CHANGE").v
                           percent == Lookup(enriched[i], "PRICE_CHANGE_PERCENT").v
                           off     == 2 * (percent * closing - (current - closing) * 10000)
                       IN  /\ change = current - closing
                           /\ off <= closing /\ -off <= closing

C20_Witness ==
    /\ merge_pc = "done"
    /\ Len(primary) = 2
    /\ Get(primary[1], "CURRENT_PRICE", Absent) = JNum(101, 0)
    /\ Get(primary[1], "CLOSING_PRICE", Absent) = JNum(100, 0)
    /\ Lookup(enriched[1], "PRICE_CHANGE") = Hundredths(100)
    /\ Lookup(enriched[1], "PRICE_CHANGE_PERCENT") = Hundredths(100)
    /\ Get(primary[2], "CURRENT_PRICE", Absent) = JNum(99, 500000)
    /\ Get(primary[2], "CLOSING_PRICE", Absent) = Absent
    /\ ~HasKey(enriched[2], "PRICE_CHANGE")
    /\ ~HasKey(enriched[2], "PRICE_CHANGE_PERCENT")

----------------------------------------------------------------------------
(* The payload with the screener structure and no entries                  *)

\* {"data": {"data": {}}}
EmptyScreener == Screener(<<>>)

\* C22: for a payload whose data.data is an empty mapping, _process_data
\* returns an empty table (0 rows) and raises nothing.
C22_EmptyMappingGivesEmptyTable ==
    (Finished /\ raw_data = EmptyScreener)
        => /\ norm_result.ok
           /\ Len(RowsOf(norm_result)) = 0

----------------------------------------------------------------------------
(* Properties of S3Service, checked under SpecS3                           *)

\* no session is inside a Connect attempt
NoConnectRunning == \A s \in Callers : s3_op[s] # "connect"

\* the step ends a Connect attempt that raised, at line 72 or at line 79
RaisingConnectEnds == \E s \in Callers : s3_pc[s] = "except" /\ s3_pc'[s] = "idle"

\* C23: between Connect attempts s3_client is non-null only if the attempt
\* that ended last created a client and its bucket check raised nothing (it
\* reported success); the end of an attempt that raised at either step leaves
\* s3_client null; a step taken while s3_client is null issues no S3 request
\* (no head_bucket, no create_bucket, no put_object).
C23_ClientOnlyAfterSuccessfulConnect ==
    /\ []((NoConnectRunning /\ s3_client # JNull) => connect_status = "success")
    /\ [][/\ RaisingConnectEnds => s3_client' = JNull
          /\ s3_client = JNull => s3_requests' = s3_requests]_vars

\* the second client is in place after its bucket check went through, and a
\* bucket has been created on the way
C23_Witness ==
    /\ NoConnectRunning
    /\ s3_client = Client(2)
    /\ connect_status = "success"
    /\ s3_requests.head_bucket = 2
    /\ s3_requests.create_bucket = 1

----------------------------------------------------------------------------
(* Properties of the export, checked under SpecExport                      *)

RECURSIVE ReadQuoted(_, _, _)
\* csv.reader inside a quoted field, from item i on: a doubled quote is a
\* quote, a single one ends the field; gives the field and the place after it
ReadQuoted(text, i, acc) ==
    IF i > Len(text) THEN [field |-> acc, next |-> i]
    ELSE IF text[i] # "\"" THEN ReadQuoted(text, i + 1, Append(acc, text[i]))
    ELSE IF i < Len(text) /\ text[i + 1] = "\"" THEN ReadQuoted(text, i + 2, Append(acc, "\""))
    ELSE [field |-> acc, next |-> i + 1]

\* the field that starts at item i: quoted when it opens with a quote,
\* otherwise everything up to the next ',' or line end
ReadField(text, i) ==
    IF i <= Len(text) /\ text[i] = "\""
    THEN ReadQuoted(text, i + 1, <<>>)
    ELSE LET j == CHOOSE j \in i..(Len(text) + 1) :
                      /\ j = Len(text) + 1 \/ text[j] \in {",", "\n"}
                      /\ \A k \in i..(j - 1) : text[k] \notin {",", "\n"}
         IN  [field |-> SubSeq(text, i, j - 1), next |-> j]

RECURSIVE ReadRecord(_, _, _)
\* the record that starts at item i, and the place after its line end
ReadRecord(text, i, record) ==
    LET f == ReadField(text, i)
    IN  IF f.next <= Len(text) /\ text[f.next] = ","
        THEN ReadRecord(text, f.next + 1, Append(record, f.field))
        ELSE [record |-> Append(record, f.field), next |-> f.next + 1]

RECURSIVE ReadCsv(_, _, _)
ReadCsv(text, i, records) ==
    IF i > Len(text) THEN records
    ELSE LET r == ReadRecord(text, i, <<>>)
         IN  ReadCsv(text, r.next, Append(records, r.record))

\* the records csv.reader finds in a text
CsvRecords(text) == ReadCsv(text, 1, <<>>)

\* the canonical field names in the order of the normalized table
HeaderNames == <<"CUSIP">> \o FieldsInInsertionOrder

Exported == export_pc = "exported"

\* the rows the grid shows, as returned to main
DisplayedRows == grid_response.rows

====
